---- MODULE Spec2Model ----
(***************************************************************************)
(* A model of app.py: the Feishu webhook relay.  Each webhook request is   *)
(* served by one thread of the Flask server; the module-level globals      *)
(* PROCESSED_EVENTS, _access_token and _token_expire are shared by every   *)
(* thread and are accessed without a lock, so each access is a step of its *)
(* own.                                                                    *)
(***************************************************************************)
EXTENDS Integers, Sequences, FiniteSets, TLC

(* ------------------------------------------------------------------ *)
(* Bounds of the model                                                 *)
(* ------------------------------------------------------------------ *)
NumThreads == 2
MaxRequests == 2
MaxTicks == 1

(* ------------------------------------------------------------------ *)
(* Program constants                                                   *)
(* ------------------------------------------------------------------ *)
PROCESSED_TTL == 60 * 5
DefaultExpire == 3600
SafetyMargin == 60

None == "None"

Threads == 1..NumThreads

\* Seconds by which the wall clock may advance between two steps.
TickSteps == {1, PROCESSED_TTL, PROCESSED_TTL + 1}

(* ------------------------------------------------------------------ *)
(* Request bodies                                                      *)
(* ------------------------------------------------------------------ *)
\* A text is a sequence of characters.
Hi == <<"h", "i">>
Blank == <<" ", " ">>
PaddedHi == <<" ", "h", "i", " ">>

\* message.content, a JSON string, by what json.loads makes of it:
\*   "invalid"      not JSON                       (json.loads raises)
\*   "list"         JSON, but no object            (.get raises)
\*   "number_text"  {"text": 5}                    (.strip raises)
\*   "no_text"      {} (also the default when content is absent)
\*   "object"       {"text": <text>}
ContentOf(form, text) == [form |-> form, text |-> text]

RECEIVE == "im.message.receive_v1"

\* The body of a well-formed text message event.  json is what json.loads
\* makes of the raw body: "invalid", "null", "list" or "object"; header is
\* "dict" when header is a JSON object.
TextMessage(event_id, text) ==
    [json |-> "object", type |-> None, challenge |-> None, schema |-> "2.0",
     header |-> "dict", event_type |-> RECEIVE, event_id |-> event_id,
     chat_id |-> "C1", message_type |-> "text",
     content |-> ContentOf("object", text)]

RawBody(kind) == [TextMessage(None, Hi) EXCEPT !.json = kind]

EventIds == {"E1", "E2"}

\* The scenario envelope of the specification: header.event_id and
\* event.message, and no other field.
ScenarioEnvelope ==
    [TextMessage("E1", Hi) EXCEPT !.schema = None, !.event_type = None]

UrlVerification(challenge) ==
    [TextMessage("E1", Hi) EXCEPT !.type = "url_verification",
                                  !.challenge = challenge]

Bodies ==
    {RawBody("invalid"), RawBody("null"), RawBody("list")}
    \cup {TextMessage(e, Hi) : e \in EventIds \cup {None}}
    \cup {TextMessage("", PaddedHi)}
    \cup {TextMessage("E1", t) : t \in {Blank, <<>>}}
    \cup {UrlVerification(c) : c \in {"abc123", None}}
    \cup {[UrlVerification("abc123") EXCEPT !.schema = None, !.event_id = None]}
    \cup {ScenarioEnvelope}
    \cup {[TextMessage("E1", Hi) EXCEPT !.header = "string"]}
    \cup {[TextMessage("E1", Hi) EXCEPT !.event_type = "im.chat.updated_v1"]}
    \cup {[TextMessage("E1", Hi) EXCEPT !.chat_id = c] : c \in {None, ""}}
    \cup {[TextMessage("E1", Hi) EXCEPT !.message_type = "image"]}
    \cup {[TextMessage("E1", Hi) EXCEPT !.content = ContentOf(f, <<>>)] :
             f \in {"invalid", "list", "no_text", "number_text"}}

(* ------------------------------------------------------------------ *)
(* Pure helpers                                                        *)
(* ------------------------------------------------------------------ *)
\* Python truthiness of the strings the code tests: None and "" are falsy.
Truthy(v) == v # None /\ v # ""

IsSpace(c) == c = " "

RECURSIVE LStrip(_)
LStrip(s) == IF s # <<>> /\ IsSpace(Head(s)) THEN LStrip(Tail(s)) ELSE s

RECURSIVE RStrip(_)
RStrip(s) ==
    IF s # <<>> /\ IsSpace(s[Len(s)]) THEN RStrip(SubSeq(s, 1, Len(s) - 1))
    ELSE s

\* str.strip()
strip(s) == RStrip(LStrip(s))

\* MessageOutcome, were line 161 not to test user_text.
MessageOutcomeAnyText(b) ==
    IF b.event_type # RECEIVE THEN "return"
    ELSE IF b.content.form = "invalid" THEN "return"
    ELSE IF b.content.form \in {"list", "number_text"} THEN "raise"
    ELSE IF Truthy(b.chat_id) /\ b.message_type = "text" THEN "call_qwen"
    ELSE "return"

\* handle_event, lines 144-165, which touch no shared state: what the
\* handler does with the event once the dedupe logic has let it through.
\*   "return"     handle_event returns without a completion call
\*   "raise"      an exception leaves handle_event
\*   "call_qwen"  the completion call is made with strip(text)
MessageOutcome(b) ==
    IF b.event_type # RECEIVE THEN "return"
    ELSE IF b.content.form = "invalid" THEN "return"
    ELSE IF b.content.form \in {"list", "number_text"} THEN "raise"
    ELSE IF /\ Truthy(b.chat_id)
            /\ b.message_type = "text"
            /\ strip(b.content.text) # <<>>
         THEN "call_qwen"
    ELSE "return"

\* Response bodies.  keys: the keys of the JSON object returned.
JsonBody(code, msg, keys) == [json |-> TRUE, code |-> code, msg |-> msg, challenge |-> None, keys |-> keys]

BadJson == JsonBody(1, "bad json", {"code", "msg", "detail"})
EventError == JsonBody(0, "event error", {"code", "msg", "detail"})
Ok == JsonBody(0, "ok", {"code", "msg"})
\* Challenge, were line 189 to read the wrong key.
ChallengeLost(c) == [JsonBody(-1, None, {"challenge"}) EXCEPT !.challenge = None]

Challenge(c) == [JsonBody(-1, None, {"challenge"}) EXCEPT !.challenge = c]
\* Flask's answer to an exception that leaves the view function.
InternalServerError == [JsonBody(-1, None, {}) EXCEPT !.json = FALSE]

(* ------------------------------------------------------------------ *)
(* State                                                               *)
(* ------------------------------------------------------------------ *)
VARIABLES
    clock,             \* time.time(), in seconds
    ticks,             \* how often the clock has advanced
    PROCESSED_EVENTS,  \* event_id -> timestamp
    access_token,      \* _access_token: NoToken (None), or a token
    token_expire,      \* _token_expire
    pc,                \* per thread: where it is in the handler
    cur,               \* per thread: the request it serves (an index of log)
    now,               \* per thread: handle_event's local now
    expired_ids,       \* per thread: handle_event's local expired_ids
    iter_dict,         \* per thread: the dict as it was when items() began
    reply,             \* per thread: what call_qwen returned
    fetched,           \* per thread: the token response whose expire is to be stored
    log                \* per request: its body, the calls made for it, its response

vars == <<clock, ticks, PROCESSED_EVENTS, access_token, token_expire, pc, cur, now, expired_ids, iter_dict, reply, fetched, log>>

shared == <<PROCESSED_EVENTS, access_token, token_expire>>
locals == <<now, expired_ids, iter_dict, reply, fetched>>

EmptyDict == [e \in {} |-> 0]
\* A token is known by the response that issued it: when the endpoint
\* answered, and the expire (seconds of validity) the answer carried.
Token(at, expire) == [at |-> at, expire |-> expire]
NoToken == Token(-1, 0)

\* A request as it arrives: no response yet (status 0), no call made.
NewRequest(body) ==
    [body |-> body, status |-> 0, resp |-> InternalServerError,
     now |-> -1, seen |-> FALSE, admitted |-> FALSE, duplicate |-> FALSE,
     qwen |-> 0, prompt |-> <<>>, sends |-> 0, target |-> None,
     fetches |-> 0, token_failed |-> FALSE,
     posts |-> 0, post_to |-> None, unhandled |-> FALSE]

Init ==
    /\ clock = 0
    /\ ticks = 0
    /\ PROCESSED_EVENTS = EmptyDict
    /\ access_token = NoToken
    /\ token_expire = 0
    /\ pc = [t \in Threads |-> "idle"]
    /\ cur = [t \in Threads |-> 0]
    /\ now = [t \in Threads |-> 0]
    /\ expired_ids = [t \in Threads |-> {}]
    /\ iter_dict = [t \in Threads |-> EmptyDict]
    /\ reply = [t \in Threads |-> None]
    /\ fetched = [t \in Threads |-> NoToken]
    /\ log = <<>>

(* ------------------------------------------------------------------ *)
(* Outcomes of the outbound calls                                      *)
(* ------------------------------------------------------------------ *)
\* What the completion endpoint may do with a request.
QwenOutcomes == {"ok", "bad_status", "network_error", "timeout", "not_json", "missing_fields"}

\* The strings call_qwen returns: the provider's content (line 77), the
\* fallback of line 80 and the fallback of line 83.
Content == "content"
FailedReply == "qwen call failed, try again later"
ExceptionReply == "qwen interface exception, try again later"

\* call_qwen_result, were the request made outside the try of line 72.
call_qwen_unguarded(outcome) ==
    IF outcome = "ok" THEN [raised |-> FALSE, value |-> Content]
    ELSE IF outcome = "bad_status" THEN [raised |-> FALSE, value |-> FailedReply]
    ELSE [raised |-> TRUE, value |-> None]

\* call_qwen_result, were line 82 to catch the errors of the request
\* alone: a body that lacks the fields raises KeyError to the caller.
call_qwen_catches_request_errors(outcome) ==
    IF outcome = "ok" THEN [raised |-> FALSE, value |-> Content]
    ELSE IF outcome = "bad_status" THEN [raised |-> FALSE, value |-> FailedReply]
    ELSE IF outcome = "missing_fields" THEN [raised |-> TRUE, value |-> None]
    ELSE [raised |-> FALSE, value |-> ExceptionReply]

\* call_qwen, lines 72-83: what it hands to its caller for each outcome.
call_qwen_result(outcome) ==
    IF outcome = "ok" THEN [raised |-> FALSE, value |-> Content]
    ELSE IF outcome = "bad_status" THEN [raised |-> FALSE, value |-> FailedReply]
    ELSE [raised |-> FALSE, value |-> ExceptionReply]

\* What the token endpoint may do with a request; a successful response
\* carries an expire of its own or none (the code then assumes 3600).
TokenOutcomes == {"ok", "bad_status", "no_token", "network_error", "timeout", "not_json"}
Expires == {30, 361, DefaultExpire}

\* token_post_result, were line 43 to test the status code alone.
token_post_status_only(outcome) ==
    IF outcome \in {"ok", "no_token"} THEN "store"
    ELSE IF outcome = "bad_status" THEN "none"
    ELSE "raise"

\* get_tenant_access_token, lines 38-45: "store" (go on to line 47),
\* "none" (return None) or "raise" (the exception leaves the function).
token_post_result(outcome) ==
    IF outcome = "ok" THEN "store"
    ELSE IF outcome \in {"bad_status", "no_token"} THEN "none"
    ELSE "raise"

\* What the message endpoint may do with the POST of line 105.
SendOutcomes == {"ok", "bad_status", "not_json", "network_error", "timeout"}

\* send_message, lines 105-110: "return" or "raise".
send_post_result(outcome) ==
    IF outcome \in {"network_error", "timeout"} THEN "raise" ELSE "return"

(* ------------------------------------------------------------------ *)
(* Leaving the handler                                                 *)
(* ------------------------------------------------------------------ *)
\* The thread's locals die with the request.
Forget(t) ==
    /\ pc' = [pc EXCEPT ![t] = "idle"]
    /\ cur' = [cur EXCEPT ![t] = 0]
    /\ now' = [now EXCEPT ![t] = 0]
    /\ expired_ids' = [expired_ids EXCEPT ![t] = {}]
    /\ iter_dict' = [iter_dict EXCEPT ![t] = EmptyDict]
    /\ reply' = [reply EXCEPT ![t] = None]
    /\ fetched' = [fetched EXCEPT ![t] = NoToken]

\* The log with request r's record set to rec (r may be the next request).
Put(r, rec) == IF r = Len(log) + 1 THEN Append(log, rec) ELSE [log EXCEPT ![r] = rec]

\* feishu_webhook returns (status, body) for request r, whose record is rec.
Respond(t, r, rec, status, body) ==
    /\ log' = Put(r, [rec EXCEPT !.status = status, !.resp = body])
    /\ Forget(t)

\* handle_event returned normally: line 201.
ReturnOk(t, r, rec) == Respond(t, r, rec, 200, Ok)

\* An exception left feishu_webhook itself: Flask answers 500.
Unhandled(t, r, rec) == Respond(t, r, [rec EXCEPT !.unhandled = TRUE], 500, InternalServerError)

\* Caught, were handle_event called outside the try of line 194.
CaughtNowhere(t, r, rec) == Unhandled(t, r, rec)

\* An exception left handle_event: lines 196-199.
Caught(t, r, rec) == Respond(t, r, rec, 200, EventError)

\* The thread moves on to label inside the handler.
Goto(t, r, rec, label) ==
    /\ log' = Put(r, rec)
    /\ pc' = [pc EXCEPT ![t] = label]

\* handle_event from line 144 on, once the dedupe logic is through.
Process(t, r, rec) ==
    LET outcome == MessageOutcome(rec.body) IN
    IF outcome = "call_qwen"
    THEN /\ Goto(t, r, rec, "call_qwen")
         /\ UNCHANGED <<cur, locals>>
    ELSE IF outcome = "raise" THEN Caught(t, r, rec)
    ELSE ReturnOk(t, r, rec)

(* ------------------------------------------------------------------ *)
(* The handler, step by step                                           *)
(* ------------------------------------------------------------------ *)
\* The server hands a request to a free thread (the lowest: threads are
\* interchangeable).
FreeThread(t) == pc[t] = "idle" /\ \A u \in Threads : u < t => pc[u] # "idle"

\* The event_id is in PROCESSED_EVENTS, recorded no longer than
\* PROCESSED_TTL ago.
OnRecord(event_id) ==
    /\ event_id \in DOMAIN PROCESSED_EVENTS
    /\ clock - PROCESSED_EVENTS[event_id] <= PROCESSED_TTL

\* feishu_webhook, were handle_event without the schema test of lines
\* 117-119.
feishu_webhook_any_schema(t, body) ==
    LET r == Len(log) + 1
        rec == NewRequest(body)
    IN
    /\ FreeThread(t)
    /\ UNCHANGED <<clock, ticks, shared>>
    /\ IF body.json = "invalid" THEN Respond(t, r, rec, 400, BadJson)
       ELSE IF body.json # "object" THEN Unhandled(t, r, rec)
       ELSE IF body.type = "url_verification"
            THEN Respond(t, r, rec, 200, Challenge(body.challenge))
       ELSE IF body.header # "dict" THEN Caught(t, r, rec)
       ELSE /\ Goto(t, r, [rec EXCEPT !.now = clock, !.seen = OnRecord(body.event_id)], "sweep")
            /\ cur' = [cur EXCEPT ![t] = r]
            /\ now' = [now EXCEPT ![t] = clock]
            /\ iter_dict' = [iter_dict EXCEPT ![t] = PROCESSED_EVENTS]
            /\ UNCHANGED <<expired_ids, reply, fetched>>

\* feishu_webhook, lines 177-195, and handle_event, lines 117-130, up to
\* the start of the iteration over PROCESSED_EVENTS.items().
feishu_webhook(t, body) ==
    LET r == Len(log) + 1
        rec == NewRequest(body)
    IN
    /\ FreeThread(t)
    /\ UNCHANGED <<clock, ticks, shared>>
    /\ IF body.json = "invalid" THEN Respond(t, r, rec, 400, BadJson)
       ELSE IF body.json # "object" THEN Unhandled(t, r, rec)
       ELSE IF body.type = "url_verification"
            THEN Respond(t, r, rec, 200, Challenge(body.challenge))
       ELSE IF body.schema # "2.0" THEN ReturnOk(t, r, rec)
       ELSE IF body.header # "dict" THEN Caught(t, r, rec)
       ELSE /\ Goto(t, r, [rec EXCEPT !.now = clock, !.seen = OnRecord(body.event_id)], "sweep")
            /\ cur' = [cur EXCEPT ![t] = r]
            /\ now' = [now EXCEPT ![t] = clock]
            /\ iter_dict' = [iter_dict EXCEPT ![t] = PROCESSED_EVENTS]
            /\ UNCHANGED <<expired_ids, reply, fetched>>

\* Expired, were line 130 to compare with >=.
ExpiredAtTTL(d, n) == {eid \in DOMAIN d : n - d[eid] >= PROCESSED_TTL}

\* The entries the comprehension of line 130 selects from dict d.
Expired(d, n) == {eid \in DOMAIN d : n - d[eid] > PROCESSED_TTL}

\* Line 130 ran to its end over the dict as it is now.
SweepDone(t) ==
    LET ids == Expired(PROCESSED_EVENTS, now[t]) IN
    /\ expired_ids' = [expired_ids EXCEPT ![t] = ids]
    /\ iter_dict' = [iter_dict EXCEPT ![t] = EmptyDict]
    /\ pc' = [pc EXCEPT ![t] = IF ids = {} THEN "check" ELSE "pop"]
    /\ UNCHANGED <<log, cur, now, reply, fetched>>

\* handle_event, line 130: the iteration over PROCESSED_EVENTS.items()
\* ends.  A dict whose size changed since the iteration began makes the
\* iterator raise RuntimeError; one that changed and has its old size
\* makes it raise or go on over the entries it finds.
sweep(t) ==
    /\ pc[t] = "sweep"
    /\ UNCHANGED <<clock, ticks, shared>>
    /\ IF PROCESSED_EVENTS = iter_dict[t] THEN SweepDone(t)
       ELSE IF Cardinality(DOMAIN PROCESSED_EVENTS) # Cardinality(DOMAIN iter_dict[t])
            THEN Caught(t, cur[t], log[cur[t]])
       ELSE \/ Caught(t, cur[t], log[cur[t]])
            \/ SweepDone(t)

\* dict.pop(eid, None)
DictPop(d, eid) == [e \in DOMAIN d \ {eid} |-> d[e]]

\* DictSet, were line 139 missing.
DictSetDropped(d, eid, ts) == d

\* d[eid] = ts
DictSet(d, eid, ts) == [e \in DOMAIN d \cup {eid} |-> IF e = eid THEN ts ELSE d[e]]

\* handle_event, lines 131-132: one turn of the loop.
pop(t) ==
    /\ pc[t] = "pop"
    /\ \E eid \in expired_ids[t] :
          /\ PROCESSED_EVENTS' = DictPop(PROCESSED_EVENTS, eid)
          /\ expired_ids' = [expired_ids EXCEPT ![t] = @ \ {eid}]
          /\ pc' = [pc EXCEPT ![t] = IF expired_ids[t] = {eid} THEN "check" ELSE "pop"]
    /\ UNCHANGED <<clock, ticks, access_token, token_expire, log, cur, now, iter_dict, reply, fetched>>

\* handle_event, lines 134-137 and 140-141: the membership test.
check(t) ==
    LET r == cur[t]
        rec == log[r]
        event_id == rec.body.event_id
    IN
    /\ pc[t] = "check"
    /\ UNCHANGED <<clock, ticks, shared>>
    /\ IF ~Truthy(event_id) THEN Process(t, r, [rec EXCEPT !.admitted = TRUE])
       ELSE IF event_id \in DOMAIN PROCESSED_EVENTS
            THEN ReturnOk(t, r, [rec EXCEPT !.duplicate = TRUE])
       ELSE /\ pc' = [pc EXCEPT ![t] = "record"]
            /\ UNCHANGED <<log, cur, locals>>

\* handle_event, line 139, and on to line 144.
record(t) ==
    LET r == cur[t]
        rec == log[r]
    IN
    /\ pc[t] = "record"
    /\ PROCESSED_EVENTS' = DictSet(PROCESSED_EVENTS, rec.body.event_id, now[t])
    /\ UNCHANGED <<clock, ticks, access_token, token_expire>>
    /\ Process(t, r, [rec EXCEPT !.admitted = TRUE])

\* TokenFresh, were line 34 to compare with <=.
TokenFreshAtDeadline == access_token # NoToken /\ clock <= token_expire

\* get_tenant_access_token, line 34: is the cached token still good?
TokenFresh == access_token # NoToken /\ clock < token_expire

\* handle_event, lines 162-163: the completion call; with the string it
\* returns send_message is called, which calls get_tenant_access_token,
\* whose line 34 decides between the cached token and a fetch.
call_qwen(t) ==
    LET r == cur[t]
        rec == log[r]
        called == [rec EXCEPT !.qwen = @ + 1, !.prompt = strip(rec.body.content.text)]
    IN
    /\ pc[t] = "call_qwen"
    /\ UNCHANGED <<clock, ticks, shared>>
    /\ \E outcome \in QwenOutcomes :
          LET res == call_qwen_result(outcome) IN
          IF res.raised THEN Caught(t, r, called)
          ELSE /\ Goto(t, r, [called EXCEPT !.sends = @ + 1, !.target = rec.body.chat_id],
                       IF TokenFresh THEN "send_post" ELSE "token_post")
               /\ reply' = [reply EXCEPT ![t] = res.value]
               /\ UNCHANGED <<cur, now, expired_ids, iter_dict, fetched>>

\* token_post, were a failed fetch to drop the cached token.
token_post_clears_cache(t) ==
    LET r == cur[t]
    IN
    /\ pc[t] = "token_post"
    /\ UNCHANGED <<clock, ticks, PROCESSED_EVENTS, token_expire>>
    /\ \E outcome \in TokenOutcomes, expire \in Expires :
          LET res == token_post_result(outcome)
              rec == [log[r] EXCEPT !.fetches = @ + 1, !.token_failed = outcome # "ok"]
          IN
          IF res = "store"
          THEN /\ access_token' = Token(clock, expire)
               /\ fetched' = [fetched EXCEPT ![t] = Token(clock, expire)]
               /\ Goto(t, r, rec, "expire_store")
               /\ UNCHANGED <<cur, now, expired_ids, iter_dict, reply>>
          ELSE /\ access_token' = NoToken
               /\ IF res = "raise" THEN Caught(t, r, rec) ELSE ReturnOk(t, r, rec)

\* get_tenant_access_token, lines 38-47: the POST to the token endpoint
\* and the store of the token it issued; send_message, lines 89-91, when
\* there is none.
token_post(t) ==
    LET r == cur[t]
    IN
    /\ pc[t] = "token_post"
    /\ UNCHANGED <<clock, ticks, PROCESSED_EVENTS, token_expire>>
    /\ \E outcome \in TokenOutcomes, expire \in Expires :
          LET res == token_post_result(outcome)
              rec == [log[r] EXCEPT !.fetches = @ + 1, !.token_failed = outcome # "ok"]
          IN
          IF res = "store"
          THEN /\ access_token' = Token(clock, expire)
               /\ fetched' = [fetched EXCEPT ![t] = Token(clock, expire)]
               /\ Goto(t, r, rec, "expire_store")
               /\ UNCHANGED <<cur, now, expired_ids, iter_dict, reply>>
          ELSE /\ UNCHANGED access_token
               /\ IF res = "raise" THEN Caught(t, r, rec) ELSE ReturnOk(t, r, rec)

\* get_tenant_access_token, line 48.
expire_store(t) ==
    /\ pc[t] = "expire_store"
    /\ token_expire' = clock + fetched[t].expire - SafetyMargin
    /\ pc' = [pc EXCEPT ![t] = "send_post"]
    /\ fetched' = [fetched EXCEPT ![t] = NoToken]
    /\ UNCHANGED <<clock, ticks, PROCESSED_EVENTS, access_token, log, cur, now, expired_ids, iter_dict, reply>>

\* get_tenant_access_token, lines 35 and 50: return _access_token;
\* send_message, lines 89-110: the POST to the message endpoint with it.
send_post(t) ==
    LET r == cur[t]
        rec == [log[r] EXCEPT !.posts = @ + 1, !.post_to = log[r].target]
    IN
    /\ pc[t] = "send_post"
    /\ UNCHANGED <<clock, ticks, shared>>
    /\ \E outcome \in SendOutcomes :
          IF send_post_result(outcome) = "raise" THEN Caught(t, r, rec)
          ELSE ReturnOk(t, r, rec)

\* Time passes.
Tick ==
    /\ \E d \in TickSteps : clock' = clock + d
    /\ ticks' = ticks + 1
    /\ UNCHANGED <<shared, pc, cur, locals, log>>

Step(t) ==
    \/ sweep(t)
    \/ pop(t)
    \/ check(t)
    \/ record(t)
    \/ call_qwen(t)
    \/ token_post(t)
    \/ expire_store(t)
    \/ send_post(t)

\* The server as app.run starts it: one thread per request, any number of
\* requests in flight.
Next ==
    \/ \E t \in Threads, body \in Bodies : Len(log) < MaxRequests /\ feishu_webhook(t, body)
    \/ \E t \in Threads : Step(t)
    \/ ticks < MaxTicks /\ Tick

Spec == Init /\ [][Next]_vars

\* The same server when the deliveries are handled one after another: a
\* request is taken up only once every earlier one has its response.
NoneInFlight == \A t \in Threads : pc[t] = "idle"

SeqNext ==
    \/ \E t \in Threads, body \in Bodies : Len(log) < MaxRequests /\ NoneInFlight /\ feishu_webhook(t, body)
    \/ \E t \in Threads : Step(t)
    \/ ticks < MaxTicks /\ Tick

SeqSpec == Init /\ [][SeqNext]_vars

\* The same server under redeliveries of one text event, over a longer
\* run, while every outbound call succeeds: the completion endpoint
\* answers with content, the token endpoint with a token and no expire of
\* its own, the message endpoint with 200.
MaxRedeliveries == 3
MaxRedeliveryTicks == 2

Redelivered == {TextMessage("E1", Hi)}

OutboundSucceeds ==
    /\ \A t \in Threads : reply[t] \in {None, Content}
    /\ access_token.expire \in {NoToken.expire, DefaultExpire}
    /\ \A i \in 1..Len(log) : ~log[i].token_failed /\ (log[i].posts = 1 => log[i].resp = Ok)

RedeliveryNext ==
    \/ \E t \in Threads, body \in Redelivered : Len(log) < MaxRedeliveries /\ feishu_webhook(t, body)
    \/ \E t \in Threads : Step(t) /\ OutboundSucceeds'
    \/ ticks < MaxRedeliveryTicks /\ Tick

RedeliverySpec == Init /\ [][RedeliveryNext]_vars

(* ------------------------------------------------------------------ *)
(* Properties                                                          *)
(* ------------------------------------------------------------------ *)
Requests == 1..Len(log)

Responded(i) == log[i].status # 0

\* The requests whose body carries header.event_id = e.
Carrying(e) == {i \in Requests : log[i].body.event_id = e}

RECURSIVE Total(_, _)
\* The sum of a counter (a field of the log records) over the requests S.
Total(counter, S) ==
    IF S = {} THEN 0
    ELSE LET i == CHOOSE x \in S : TRUE IN log[i][counter] + Total(counter, S \ {i})

First(S) == CHOOSE i \in S : \A j \in S : i <= j

\* A complete text message event: schema 2.0, im.message.receive_v1, a
\* chat_id, message_type text and a text with a visible character.
WellFormedText(b) ==
    \E e \in EventIds \cup {None, ""}, text \in {Hi, PaddedHi} : b = TextMessage(e, text)

\* A body that is an event callback: a JSON object that is no URL check.
EventCallback(b) == b.json = "object" /\ b.type # "url_verification"

\* The text has a character that is no white space.
Visible(text) == \E k \in 1..Len(text) : text[k] # " "

\* C1: when the N deliveries that carry an event_id are the same text
\* message, handled one after another, each within PROCESSED_TTL of the
\* first, then call_qwen and send_message are each called once in all and
\* every delivery is answered with 200.
C1_ExactlyOnceWithinTTL ==
    \A e \in EventIds :
        LET D == Carrying(e) IN
        (/\ D # {}
         /\ \A i \in D : WellFormedText(log[i].body) /\ Responded(i)
         /\ \A i \in D : log[i].now - log[First(D)].now <= PROCESSED_TTL)
        => /\ Total("qwen", D) = 1
           /\ Total("sends", D) = 1
           /\ \A i \in D : log[i].status = 200

\* Two deliveries of one event, the second PROCESSED_TTL seconds after the
\* first, both answered, one completion call.
C1_Witness ==
    \E e \in EventIds :
        LET D == Carrying(e) IN
        /\ Cardinality(D) = 2
        /\ \A i \in D : WellFormedText(log[i].body) /\ log[i].status = 200
        /\ \E i \in D : log[i].now - log[First(D)].now = PROCESSED_TTL
        /\ Total("qwen", D) = 1
        /\ Total("sends", D) = 1

\* C2: under any interleaving of the handlers, two deliveries of one
\* event_id within PROCESSED_TTL of each other are never both admitted, and
\* the completion call is made at most once for them.
C2_AdmissionIsAtomic ==
    \A i, j \in Requests :
        (/\ i < j
         /\ Truthy(log[i].body.event_id)
         /\ log[i].body.event_id = log[j].body.event_id
         /\ log[i].now >= 0
         /\ log[j].now >= 0
         /\ log[j].now - log[i].now <= PROCESSED_TTL)
        => /\ ~(log[i].admitted /\ log[j].admitted)
           /\ log[i].qwen + log[j].qwen <= 1

\* C3: every response is 200 with a JSON body, but for a body that is no
\* JSON, which gets 400 with a JSON body; a JSON body that is no object
\* gets 200.
C3_Always200OrBadJson ==
    \A i \in Requests :
        Responded(i) =>
            /\ log[i].resp.json
            /\ log[i].status = (IF log[i].body.json = "invalid" THEN 400 ELSE 200)

\* C4: a request whose event passed the dedupe logic is answered with 200,
\* whatever fails afterwards.
C4_AdmittedIsAcknowledged ==
    \A i \in Requests :
        (log[i].admitted /\ Responded(i)) => (log[i].status = 200 /\ log[i].resp.json)

\* An admitted event whose message POST raised, answered 200.
C4_Witness ==
    \E i \in Requests :
        /\ log[i].admitted
        /\ log[i].posts = 1
        /\ log[i].resp.msg = "event error"
        /\ log[i].status = 200

\* C5: a url_verification envelope with challenge c is answered with 200
\* and the body {"challenge": c}, whatever else the envelope carries.
C5_ChallengeEchoed ==
    \A i \in Requests :
        (log[i].body.json = "object" /\ log[i].body.type = "url_verification")
        => /\ log[i].status = 200
           /\ log[i].resp.json
           /\ log[i].resp.keys = {"challenge"}
           /\ log[i].resp.challenge = log[i].body.challenge

\* A url_verification envelope that also carries schema 2.0, an event_id
\* and a text message, answered with its challenge.
C5_Witness ==
    \E i \in Requests :
        /\ log[i].body = UrlVerification("abc123")
        /\ log[i].body.schema = "2.0"
        /\ log[i].status = 200
        /\ log[i].resp.challenge = "abc123"

\* What C6 and its amendment promise for request i: one completion call
\* with the trimmed text, one call of send_message for the message's chat.
ProcessedOnce(i) ==
    /\ log[i].qwen = 1
    /\ log[i].prompt = strip(log[i].body.content.text)
    /\ log[i].sends = 1
    /\ log[i].target = log[i].body.chat_id

\* C6 as stated: an admitted im.message.receive_v1 event of message_type
\* text with a non-empty decoded text gets exactly one completion call and
\* one dispatch call to its chat_id, and so does the scenario envelope of
\* the specification.
C6_EveryTextEventProcessed ==
    \A i \in Requests :
        (/\ Responded(i)
         /\ \/ /\ log[i].admitted
               /\ log[i].body.event_type = RECEIVE
               /\ log[i].body.message_type = "text"
               /\ log[i].body.content.form = "object"
               /\ log[i].body.content.text # <<>>
            \/ log[i].body = ScenarioEnvelope)
        => ProcessedOnce(i)

\* C6 as amended: an admitted event (schema 2.0) of type
\* im.message.receive_v1 with a non-empty chat_id, message_type text and a
\* text that is non-empty after trimming gets exactly one completion call,
\* with the trimmed text, and exactly one call of send_message, for its
\* chat_id; the scenario envelope, which has no schema, is ignored.
C6_CompleteTextEventProcessed ==
    \A i \in Requests :
        /\ (/\ Responded(i)
            /\ log[i].admitted
            /\ log[i].body.event_type = RECEIVE
            /\ Truthy(log[i].body.chat_id)
            /\ log[i].body.message_type = "text"
            /\ log[i].body.content.form = "object"
            /\ Visible(log[i].body.content.text))
           => ProcessedOnce(i)
        /\ log[i].body = ScenarioEnvelope
           => (~log[i].admitted /\ log[i].qwen = 0 /\ log[i].sends = 0)

\* An admitted text event with a padded text: one completion call with the
\* trimmed text, one send_message to its chat.
C6_Witness ==
    \E i \in Requests :
        /\ log[i].body = TextMessage("", PaddedHi)
        /\ log[i].admitted
        /\ log[i].status = 200
        /\ log[i].qwen = 1
        /\ log[i].prompt = Hi
        /\ log[i].sends = 1
        /\ log[i].target = "C1"

\* C7: an event whose message_type is not text, or whose text is empty
\* after trimming, causes no completion call, no token fetch and no
\* dispatch, and is answered with 200.
C7_NoCallForEmptyOrNonText ==
    \A i \in Requests :
        (/\ EventCallback(log[i].body)
         /\ \/ log[i].body.message_type # "text"
            \/ /\ log[i].body.content.form \in {"object", "no_text"}
               /\ ~Visible(log[i].body.content.text))
        => /\ log[i].qwen = 0
           /\ log[i].fetches = 0
           /\ log[i].sends = 0
           /\ log[i].posts = 0
           /\ Responded(i) => log[i].status = 200

\* An admitted text event whose text is white space only, answered 200
\* with no call made.
C7_Witness ==
    \E i \in Requests :
        /\ log[i].body = TextMessage("E1", Blank)
        /\ log[i].admitted
        /\ log[i].status = 200
        /\ log[i].qwen = 0

\* Request j is the first after request i whose handler ran the dedupe
\* logic for i's event_id and was not refused.
NextDelivery(i, j) ==
    /\ i < j
    /\ Truthy(log[i].body.event_id)
    /\ log[i].body.event_id = log[j].body.event_id
    /\ log[i].admitted
    /\ log[j].now >= 0
    /\ Responded(j)
    /\ \A k \in Requests : (i < k /\ k < j /\ log[k].body.event_id = log[i].body.event_id) => ~log[k].admitted

C9_TokenFailureSkipsDispatch ==
    \A i \in Requests :
        log[i].token_failed =>
            /\ log[i].posts = 0
            /\ log[i].fetches = 1
            /\ log[i].sends = 1
            /\ log[i].status = 200

\* A dispatch whose token fetch raised: no POST, answered 200.
C9_Witness ==
    \E i \in Requests :
        /\ log[i].token_failed
        /\ log[i].qwen = 1
        /\ log[i].posts = 0
        /\ log[i].status = 200
        /\ log[i].resp.msg = "event error"

\* C10: no request ends in a failure that the handler did not handle:
\* every response is one that feishu_webhook itself returned.
C10_NoUnhandledFailure ==
    \A i \in Requests : ~log[i].unhandled

\* C11: call_qwen never raises: whatever the completion endpoint does
\* (answer, other status, network error, timeout, a body that is no JSON
\* or lacks the fields), the call returns, send_message is called with
\* what it returned, and that is one of its three strings.
C11_CallQwenReturnsString ==
    /\ \A i \in Requests : log[i].qwen = 1 => log[i].sends = 1
    /\ \A t \in Threads :
          pc[t] \in {"token_post", "expire_store", "send_post"}
              => reply[t] \in {Content, FailedReply, ExceptionReply}

\* A completion call that met an exception inside call_qwen and returned
\* the fallback of line 83, with which send_message is under way.
C11_Witness ==
    \E t \in Threads :
        /\ pc[t] = "token_post"
        /\ reply[t] = ExceptionReply
        /\ log[cur[t]].qwen = 1
        /\ log[cur[t]].sends = 1

\* The seconds the cached token still has before the token endpoint lets
\* it expire: the time of its fetch plus the expire it came with.
Remaining == access_token.at + access_token.expire - clock

\* C12: every token get_tenant_access_token returns, cached or just
\* fetched, has at the moment of the return (lines 35 and 50) more than
\* 60 seconds left before its real expiry, whatever expire the server
\* gave, 60 or less included.
C12_ReturnedTokenHasMargin ==
    \A t \in Threads : pc[t] = "send_post" => Remaining > SafetyMargin

\* C13: a refresh that fails (a status other than 200, a body without
\* tenant_access_token, or an exception) leaves the cached token and its
\* deadline exactly as they were; they change only in the steps of a
\* fetch that succeeded (lines 47 and 48).
C13_FailedRefreshKeepsCache ==
    [][/\ \A t \in Threads :
             (pc[t] = "token_post" /\ log'[cur[t]].token_failed)
                 => (access_token' = access_token /\ token_expire' = token_expire)
       /\ (access_token' # access_token \/ token_expire' # token_expire)
             => \E t \in Threads :
                   /\ pc[t] \in {"token_post", "expire_store"}
                   /\ pc'[t] # pc[t]
                   /\ ~log'[cur[t]].token_failed]_vars

\* A refresh failed while a token of an earlier fetch was cached, and the
\* token and its deadline are still those of that fetch.
C13_Witness ==
    \E i, j \in Requests :
        /\ i < j
        /\ log[i].fetches = 1 /\ ~log[i].token_failed /\ Responded(i)
        /\ log[j].fetches = 1 /\ log[j].token_failed /\ Responded(j)
        /\ access_token # NoToken
        /\ token_expire = access_token.at + access_token.expire - SafetyMargin

\* The cached deadline is one that line 48 can have computed from the
\* response that issued the cached token: some time from its fetch on,
\* plus its expire, less the margin.
SameIssuance ==
    \/ access_token = NoToken /\ token_expire = 0
    \/ /\ access_token # NoToken
       /\ \E at \in access_token.at..clock :
             token_expire = at + access_token.expire - SafetyMargin

\* C14: the cached token and its deadline are replaced together: in every
\* state, under concurrent refreshes and readers too, both come from one
\* response of the token endpoint, so that no caller is handed a token
\* that is cached with the deadline of another fetch.
C14_TokenAndExpiryFromOneFetch ==
    \A t \in Threads : pc[t] = "send_post" => SameIssuance

\* C15: when line 34 finds a cached token and a time before its stored
\* deadline, get_tenant_access_token goes straight to the return of the
\* cached token (line 35) and the handler makes no request to the token
\* endpoint; it goes on to the fetch only when no token is cached or the
\* deadline is reached, and a request to the token endpoint is made in no
\* other way.
C15_FreshTokenServedFromCache ==
    [][/\ \A t \in Threads :
             (pc[t] = "call_qwen" /\ pc'[t] \notin {"call_qwen", "idle"})
                 => IF access_token # NoToken /\ clock < token_expire
                    THEN pc'[t] = "send_post" /\ log'[cur[t]].fetches = 0
                    ELSE pc'[t] = "token_post"
       /\ \A i \in Requests :
             log'[i].fetches # log[i].fetches
                 => \E t \in Threads : cur[t] = i /\ pc[t] = "token_post"
       /\ \A t \in Threads :
             (pc[t] = "send_post" /\ log[cur[t]].fetches = 0)
                 => (access_token # NoToken /\ log'[cur[t]].fetches = 0)]_vars

\* A dispatch that was answered with the cached token of an earlier
\* request's fetch: a message POST and no request to the token endpoint.
C15_Witness ==
    \E i, j \in Requests :
        /\ i # j
        /\ log[i].fetches = 1 /\ ~log[i].token_failed
        /\ log[j].posts = 1 /\ log[j].fetches = 0 /\ Responded(j)

\* C16: the event_id is recorded before the completion call starts, so
\* that a delivery that arrives while the same event_id is on record and
\* within PROCESSED_TTL, be the first delivery's processing under way,
\* failed or done, is rejected and not processed.
C16_RecordedBeforeProcessing ==
    /\ \A i \in Requests :
          (log[i].qwen >= 1 /\ Truthy(log[i].body.event_id)) => log[i].admitted
    /\ \A j \in Requests :
          (log[j].seen /\ Responded(j)) => (~log[j].admitted /\ log[j].qwen = 0)

\* C17: when a handler's admission check (line 135, or line 134 for an
\* event without event_id) completes, PROCESSED_EVENTS has no entry older
\* than PROCESSED_TTL at the time that handler read at line 127.
C17_NoExpiredEntryAfterCheck ==
    [][\A t \in Threads :
          (pc[t] = "check" /\ pc'[t] # "check")
              => \A eid \in DOMAIN PROCESSED_EVENTS' :
                    now[t] - PROCESSED_EVENTS'[eid] <= PROCESSED_TTL]_vars

\* A complete text message event without event_id (absent or empty).
IdLessText(b) == WellFormedText(b) /\ ~Truthy(b.event_id)

\* C18: an event callback without event_id is always admitted and never
\* recorded: every delivery of an id-less text event that was answered
\* has one completion call and one dispatch call of its own, and no key
\* of PROCESSED_EVENTS is None or empty.
C18_IdLessAlwaysAdmitted ==
    /\ \A i \in Requests :
          (IdLessText(log[i].body) /\ Responded(i))
              => /\ log[i].admitted
                 /\ ~log[i].duplicate
                 /\ log[i].qwen = 1
                 /\ log[i].sends = 1
    /\ DOMAIN PROCESSED_EVENTS \subseteq EventIds

\* C19: a complete text message event whose event_id no other delivery
\* carries is admitted and processed whatever other handlers do at the
\* same time: it is recorded, has its completion call and its dispatch
\* call, and is answered with code 0, msg "ok" unless a step of its own
\* processing failed; the sweep of line 130 never fails or loses the
\* event because another handler inserted or removed an entry.
C19_IndependentOfOtherHandlers ==
    \A i \in Requests :
        (/\ WellFormedText(log[i].body)
         /\ Truthy(log[i].body.event_id)
         /\ Carrying(log[i].body.event_id) = {i}
         /\ Responded(i))
        => /\ log[i].admitted
           /\ log[i].qwen = 1
           /\ log[i].sends = 1

\* A body feishu_webhook and handle_event answer before the dedupe logic:
\* one that is no JSON, a URL check, or an envelope whose schema is not
\* "2.0".
AnsweredEarly(b) ==
    \/ b.json = "invalid"
    \/ b.json = "object" /\ (b.type = "url_verification" \/ b.schema # "2.0")

\* C20: handling a URL check, a body that cannot be parsed or an envelope
\* whose schema is not "2.0" leaves PROCESSED_EVENTS, the cached token
\* and its deadline unchanged and makes no outbound call: no sweep, no
\* event_id recorded, no completion call, no token fetch, no dispatch,
\* also when the envelope carries header.event_id.
C20_EarlyAnswersTouchNothing ==
    [][\A i \in 1..Len(log') :
          AnsweredEarly(log'[i].body)
              => /\ Responded(i)'
                 /\ log'[i].now = -1
                 /\ ~log'[i].admitted /\ ~log'[i].duplicate
                 /\ log'[i].qwen = 0 /\ log'[i].sends = 0
                 /\ log'[i].fetches = 0 /\ log'[i].posts = 0
                 /\ (i > Len(log) => shared' = shared)]_vars

\* An envelope with header.event_id E1 and no schema "2.0" was answered
\* while E2 was on record and a token cached: E1 is not on record and
\* the token is the one that was cached.
C20_Witness ==
    \E i, j \in Requests :
        /\ i < j
        /\ log[i].body = TextMessage("E2", Hi) /\ log[i].fetches = 1 /\ Responded(i)
        /\ log[j].body = ScenarioEnvelope /\ log[j].status = 200
        /\ DOMAIN PROCESSED_EVENTS = {"E2"}
        /\ access_token # NoToken
        /\ token_expire = access_token.at + access_token.expire - SafetyMargin
====
